---- MODULE Spec2Model ----
(***************************************************************************)
(* The asynchronous job manager of pipefunc's MCP server                   *)
(* (src/pipefunc/mcp.py): the process-wide job_registry, the tool handlers *)
(* _execute_pipeline_async, _check_job_status, _cancel_job and _list_jobs, *)
(* and the asyncio task behind every job; and the disk inspection of run   *)
(* folders, _progress_info_from_disk, _list_historical_runs and _run_info. *)
(*                                                                         *)
(* The handlers are coroutines on one event loop: a handler runs           *)
(* atomically from one `await` to the next, and other handlers and the     *)
(* jobs' tasks run while it is suspended in `await ctx.info(...)`.  Every  *)
(* action below is one such atomic stretch of a handler, or one step of a  *)
(* background task.  A request that is cancelled while its handler is      *)
(* suspended ends the handler there with CancelledError.                   *)
(***************************************************************************)
EXTENDS Integers, Sequences, FiniteSets, Bags, TLC

VARIABLES
    pipeline,      \* the Pipeline the server was built for: name, output names
    uuid_count,    \* how many uuid4 values have been drawn
    clock,         \* datetime.now(): the reading of the wall clock
    job_registry,  \* the dict job_id -> JobInfo, in insertion order
    task,          \* runner id -> the asyncio.Task of that AsyncMap
    suspended,     \* the handlers suspended in `await ctx.info`, with their locals
    n_returned,    \* how many start_async_job calls have returned a job_id
    n_cancelled,   \* how many ended with an exception after storing their job
    root,          \* the folder a disk scan is pointed at, as it is on disk
    disk_call,     \* the last call that ended on the folder as it is now
    disk_out       \* what that call returned, or the exception it raised

job_vars == <<pipeline, uuid_count, clock, job_registry, task, suspended, n_returned, n_cancelled>>
disk_vars == <<root, disk_call, disk_out>>
vars == <<job_vars, disk_vars>>

-----------------------------------------------------------------------------
(* Bounds of the model *)

MaxJobs == 2
MaxSuspended == 2
MaxEntries == 3
MaxSize == 5
MaxSyncCalls == 2
MaxSyncEntries == 2

-----------------------------------------------------------------------------
(* Python values *)

\* Python's None, kept apart from every string of the model.
None == "<None>"

\* bool(x) of an optional string: None and "" are falsy.
Truthy(x) == x # None /\ x # ""

\* An `or` that always takes the default.
PyOrSecond(a, b) == b

\* `a or b` on optional strings.
PyOr(a, b) == IF Truthy(a) THEN a ELSE b

\* An output name of a pipeline function: a str, or a tuple of str for a
\* function with several outputs.
StrName(s) == [tuple |-> FALSE, parts |-> <<s>>]
TupleName(ps) == [tuple |-> TRUE, parts |-> ps]

RECURSIVE JoinQuoted(_)
JoinQuoted(ps) ==
    IF Len(ps) = 0 THEN ""
    ELSE IF Len(ps) = 1 THEN "'" \o ps[1] \o "'"
    ELSE "'" \o ps[1] \o "', " \o JoinQuoted(Tail(ps))

\* A plausible slip: a tuple name rendered by its first element only.
PyStrFirstPart(n) == n.parts[1]

\* str(output_name): a str is itself, a tuple is its repr.
PyStr(n) ==
    IF ~n.tuple THEN n.parts[1]
    ELSE IF Len(n.parts) = 1 THEN "('" \o n.parts[1] \o "',)"
    ELSE "(" \o JoinQuoted(n.parts) \o ")"

\* The pipeline the server is built for: pipeline.name (None unless the
\* user names it) and the output names that key the progress tracker of
\* map_async(show_progress="headless"): str names, and tuple names for
\* functions with several outputs.
Pipelines ==
    { [name |-> None,
       outputs |-> {StrName("mesh"),
                    TupleName(<<"mesh", "coarse_mesh">>),
                    TupleName(<<"mesh">>)}] }

_DEFAULT_PIPELINE_NAME == "Unnamed Pipeline"

\* The run_folder arguments a caller passes to execute_pipeline_async.
OutsideRunFolder == "my_runs/a"

RunFolderArgs == {None, "", OutsideRunFolder}

\* A constant id instead of a fresh one.
Uuid4Constant(k) == "uuid1"

\* str(uuid.uuid4()): the k-th value drawn; every draw is a fresh value.
Uuid4(k) == "uuid" \o ToString(k)

\* The job_id arguments a caller passes: every id the server can hand out,
\* and a string it never hands out.
JobIdArgs == {Uuid4(k) : k \in 1..MaxJobs} \cup {"no-such-job"}

\* The exceptions a pipeline run ends with.
Exceptions ==
    { [type |-> "ValueError", args |-> "bad input"] }

NoException == [type |-> None, args |-> None]

\* A plausible slip: the exception's class name instead of its message.
ExcTypeName(e) == e.type

\* str(exception): the message it was raised with.
ExcStr(e) == e.args

\* datetime.isoformat() of a clock reading (UTC).
IsoFormat(t) == "1970-01-01T00:00:0" \o ToString(t) \o "+00:00"

-----------------------------------------------------------------------------
(* asyncio.Task, as the handlers use it *)

\* A task is pending, or done in one of three ways.  must_cancel records that
\* cancel() was requested while it was pending.
NewTask == [state |-> "pending", must_cancel |-> FALSE, exc |-> NoException]

\* task.done()
TaskDone(t) == t.state # "pending"

\* task.cancel(): a request; on a pending task it arranges for CancelledError
\* to be thrown into the coroutine, on a done task it does nothing.
TaskCancel(t) == IF t.state = "pending" THEN [t EXCEPT !.must_cancel = TRUE] ELSE t

\* task.exception() raises CancelledError on a cancelled task
\* (and is only called on done tasks by the handlers).
ExceptionRaises(t) == t.state = "cancelled"

\* task.exception() where it returns: the exception, or None.
TaskException(t) == IF t.state = "exception" THEN t.exc ELSE NoException

\* bool(task.exception()) where it returns: an exception object is truthy.
HasException(t) == TaskException(t) # NoException

-----------------------------------------------------------------------------
(* The dict job_registry: a sequence of JobInfo entries keyed by job_id *)

Keys(reg) == {reg[i].job_id : i \in 1..Len(reg)}

NoJob == [job_id |-> None]

\* A lookup that falls back to the first entry.
GetOrFirst(reg, job_id) ==
    LET at == {i \in 1..Len(reg) : reg[i].job_id = job_id}
    IN  IF at # {} THEN reg[CHOOSE i \in at : TRUE]
        ELSE IF Len(reg) > 0 THEN reg[1] ELSE NoJob

\* job_registry.get(job_id)
Get(reg, job_id) ==
    LET at == {i \in 1..Len(reg) : reg[i].job_id = job_id}
    IN  IF at # {} THEN reg[CHOOSE i \in at : TRUE] ELSE NoJob

\* A store that rebinds the registry to a dict of the new entry alone.
DictSetFresh(reg, info) == <<info>>

\* job_registry[job_id] = info: a new key is appended, an old key keeps its
\* place and gets the new value.
DictSet(reg, info) ==
    IF info.job_id \in Keys(reg)
    THEN [i \in 1..Len(reg) |-> IF reg[i].job_id = info.job_id THEN info ELSE reg[i]]
    ELSE Append(reg, info)

\* A record that starts under another label than "running".
JobInfoPending(job_id, runner, started_at, run_folder, pipeline_name) ==
    [job_id |-> job_id, runner |-> runner, started_at |-> started_at,
     run_folder |-> run_folder, status |-> "pending",
     pipeline_name |-> pipeline_name]

\* JobInfo(runner, started_at, run_folder, status="running", pipeline_name)
JobInfo(job_id, runner, started_at, run_folder, pipeline_name) ==
    [job_id |-> job_id, runner |-> runner, started_at |-> started_at,
     run_folder |-> run_folder, status |-> "running",
     pipeline_name |-> pipeline_name]

\* A cancel that marks every job of the registry.
MarkCancelledAll(reg, job_id) ==
    [i \in 1..Len(reg) |-> [reg[i] EXCEPT !.status = "cancelled"]]

\* job.status = "cancelled"
MarkCancelled(reg, job_id) ==
    [i \in 1..Len(reg) |->
        IF reg[i].job_id = job_id THEN [reg[i] EXCEPT !.status = "cancelled"]
        ELSE reg[i]]

-----------------------------------------------------------------------------
(* Responses: each handler returns str() of one of these dicts, or raises *)

Raised(op, job_id, exc) == [op |-> op, kind |-> "raise", job_id |-> job_id, exc |-> exc]

NotFound(op, job_id) ==
    [op |-> op, kind |-> "ok", job_id |-> job_id, error |-> "Job not found"]

\* progress_info: one entry per key str(output_name) of progress_dict.
ProgressInfo(outputs) ==
    [k \in {PyStr(n) : n \in outputs} |->
        CHOOSE n \in outputs : PyStr(n) = k]

\* The result_info dict of _check_job_status for a job whose task.exception()
\* call, if made, returns.
ResultInfo(job, t) ==
    [op |-> "status", kind |-> "ok",
     job_id |-> job.job_id,
     pipeline_name |-> job.pipeline_name,
     status |-> IF TaskDone(t) THEN "completed" ELSE "running",
     progress |-> ProgressInfo(pipeline.outputs),
     run_folder |-> job.run_folder,
     started_at |-> IsoFormat(job.started_at),
     error |-> IF TaskDone(t) /\ HasException(t) THEN ExcStr(TaskException(t)) ELSE None,
     has_results |-> TaskDone(t) /\ ~HasException(t)]

\* One job_info dict of _list_jobs.
ListEntry(job, t) ==
    [job_id |-> job.job_id,
     pipeline_name |-> job.pipeline_name,
     status |-> job.status,
     run_folder |-> job.run_folder,
     started_at |-> IsoFormat(job.started_at),
     has_error |-> TaskDone(t) /\ HasException(t)]

-----------------------------------------------------------------------------
(* Run folders on disk, as the disk inspection reads them *)

\* A float of _progress_info_from_disk: a double in [0.0, 1.0], kept as its
\* integer part and the bits of its binary fraction (bit i has weight
\* 2^-i, no zero bits at the end); or the str "unknown" of an unresolved
\* shape.
Float(int, frac) == [known |-> TRUE, int |-> int, frac |-> frac]
Unknown == [known |-> FALSE, int |-> 0, frac |-> <<>>]

\* progress == 1.0
EqualsOne(p) == p.known /\ p.int = 1 /\ p.frac = <<>>

\* The significand of a double: 53 bits.
MantissaBits == 53

\* Bits without the zero bits at the end.
RECURSIVE Trim(_)
Trim(bits) ==
    IF bits = <<>> THEN <<>>
    ELSE IF bits[Len(bits)] = 0 THEN Trim(SubSeq(bits, 1, Len(bits) - 1))
    ELSE bits

\* The zero bits in front of the first one bit.
RECURSIVE LeadingZeros(_)
LeadingZeros(bits) ==
    IF bits = <<>> \/ Head(bits) = 1 THEN 0 ELSE 1 + LeadingZeros(Tail(bits))

\* One unit added at the last bit of a fraction: the float of the sum.
RECURSIVE Increment(_)
Increment(bits) ==
    IF bits = <<>> THEN Float(1, <<>>)
    ELSE IF bits[Len(bits)] = 0
    THEN Float(0, SubSeq(bits, 1, Len(bits) - 1) \o <<1>>)
    ELSE LET up == Increment(SubSeq(bits, 1, Len(bits) - 1))
         IN  Float(up.int, up.frac \o <<0>>)

\* Rounding of an exact binary fraction below 1 to a double: to the nearest
\* value of 53 significant bits, a tie to the even one.
RoundToDouble(bits) ==
    LET keep == LeadingZeros(bits) + MantissaBits
    IN  IF Len(bits) <= keep THEN Float(0, Trim(bits))
        ELSE LET kept == SubSeq(bits, 1, keep)
                 guard == bits[keep + 1]
                 sticky == \E k \in (keep + 2)..Len(bits) : bits[k] = 1
                 up == Increment(kept)
             IN  IF guard = 1 /\ (sticky \/ kept[keep] = 1)
                 THEN Float(up.int, Trim(up.frac))
                 ELSE Float(0, Trim(kept))

\* The first n bits of the binary fraction of r / size, for r < size, and
\* the remainder left after them.
RECURSIVE DivBits(_, _, _)
DivBits(r, size, n) ==
    IF n = 0 \/ r = 0 THEN <<>>
    ELSE IF 2 * r >= size THEN <<1>> \o DivBits(2 * r - size, size, n - 1)
    ELSE <<0>> \o DivBits(2 * r, size, n - 1)

RECURSIVE DivRemainder(_, _, _)
DivRemainder(r, size, n) ==
    IF n = 0 \/ r = 0 THEN r
    ELSE IF 2 * r >= size THEN DivRemainder(2 * r - size, size, n - 1)
    ELSE DivRemainder(2 * r, size, n - 1)

\* m / size on an int m and an int size with 0 <= m <= size and size > 0:
\* the double nearest to the quotient.
FloatDiv(m, size) ==
    IF m = size THEN Float(1, <<>>)
    ELSE LET n == MantissaBits + size + 1
             bits == DivBits(m, size, n)
             inexact == DivRemainder(m, size, n) # 0
         IN  RoundToDouble(IF inexact THEN bits \o <<1>> ELSE bits)

\* 1.0 - x on a double x in [0.0, 1.0]: the exact difference, rounded.
FloatOneMinus(x) ==
    IF x.int = 1 THEN Float(0, <<>>)
    ELSE IF x.frac = <<>> THEN Float(1, <<>>)
    ELSE RoundToDouble(Increment([k \in 1..Len(x.frac) |-> 1 - x.frac[k]]).frac)

\* sum(data.mask_linear()): the number of True items of the mask, which
\* marks the positions that hold no value yet.
RECURSIVE SumMask(_)
SumMask(mask) ==
    IF mask = <<>> THEN 0
    ELSE (IF Head(mask) THEN 1 ELSE 0) + SumMask(Tail(mask))

\* What store[output_name] is: a FileArray with its shape, its mask (one item
\* per position, True where the position is still missing) and the bytes of
\* its files; or the Path of a single-file output with the bytes of the file.
ArrayData(resolved, mask, nbytes) ==
    [kind |-> "array", resolved |-> resolved, mask |-> mask, nbytes |-> nbytes]
PathData(exists, st_size) ==
    [kind |-> "path", exists |-> exists, nbytes |-> st_size]

Masks == UNION {[1..n -> BOOLEAN] : n \in 0..MaxSize}

\* The bytes on disk of an array: one file of 8 bytes per position that holds
\* a value.
ArrayBytes(mask) == 8 * (Len(mask) - SumMask(mask))

Datas ==
    {ArrayData(TRUE, m, ArrayBytes(m)) : m \in Masks}
        \cup {ArrayData(FALSE, <<>>, 0), PathData(TRUE, 8), PathData(FALSE, 0)}

\* A run's outputs: run_info.all_output_names in iteration order, and the
\* store that maps each name to its data.
Outputs(names, store) == [names |-> names, store |-> store]

NoOutputs == Outputs(<<>>, <<>>)

\* The data a second output adds to a run.
SecondDatas == {PathData(TRUE, 8), PathData(FALSE, 0), ArrayData(TRUE, <<TRUE>>, 0)}

\* Runs of no output, of one output of any data, and of two outputs.
RichOutputs ==
    {NoOutputs}
        \cup {Outputs(<<"y1">>, [n \in {"y1"} |-> d]) : d \in Datas}
        \cup {Outputs(<<"y1", "y2">>, [n \in {"y1", "y2"} |-> IF n = "y1" THEN d1 ELSE d2]) :
                 d1 \in Datas, d2 \in SecondDatas}

\* Modification times of metadata files: <<second, microsecond>> within one
\* minute.
Mtimes == {<<9, 0>>, <<9, 500000>>, <<10, 0>>}

\* The modification time of a run_info.json written by this server: later
\* than that of every file that was there before.
WriteTime == <<11, 0>>

\* An entry of the scanned folder.  meta is the state of its run_info.json:
\* "none" (no such file), "corrupt" (not JSON), "invalid" (JSON that
\* RunInfo.load rejects) or "valid".  version is the pipefunc_version of the
\* JSON, None when the key is absent.
Entry(is_dir, meta, mtime, version, outputs) ==
    [is_dir |-> is_dir, meta |-> meta, mtime |-> mtime, version |-> version,
     outputs |-> outputs]

PlainFile == Entry(FALSE, "none", <<0, 0>>, None, NoOutputs)
EmptyDir == Entry(TRUE, "none", <<0, 0>>, None, NoOutputs)

\* The entries a scanned folder is made of in the model: a plain file, a
\* directory that is no run folder, run folders with unreadable metadata, and
\* run folders that are complete, incomplete and without outputs, with equal
\* and different modification times.
EntryContents ==
    { PlainFile,
      EmptyDir,
      Entry(TRUE, "corrupt", <<10, 0>>, None, NoOutputs),
      Entry(TRUE, "invalid", <<9, 500000>>, "0.1.0", NoOutputs),
      Entry(TRUE, "valid", <<9, 0>>, "0.1.0",
            Outputs(<<"y1">>, [n \in {"y1"} |-> PathData(TRUE, 8)])),
      Entry(TRUE, "valid", <<9, 500000>>, None,
            Outputs(<<"y1", "y2">>,
                    [n \in {"y1", "y2"} |->
                        IF n = "y1" THEN PathData(TRUE, 8)
                        ELSE ArrayData(TRUE, <<FALSE, TRUE>>, 8)])),
      Entry(TRUE, "valid", <<10, 0>>, "0.2.0", NoOutputs) }

\* The name of the i-th entry that iterdir() yields.
EntryName(i) == "run_" \o ToString(i)

Named(contents) ==
    [i \in 1..Len(contents) |-> [name |-> EntryName(i), content |-> contents[i]]]

\* The folder a scan is pointed at: missing, a plain file, or a directory
\* with its entries in the order iterdir() yields them.
Root(exists, is_dir, entries) == [exists |-> exists, is_dir |-> is_dir, entries |-> entries]

NoRoot == Root(FALSE, FALSE, <<>>)

Roots ==
    {NoRoot, Root(TRUE, FALSE, <<>>)}
        \cup {Root(TRUE, TRUE, Named(c)) :
                 c \in UNION {[1..n -> EntryContents] : n \in 0..MaxEntries}}
        \cup {Root(TRUE, TRUE, Named(<<Entry(TRUE, "valid", <<9, 0>>, "0.1.0", o)>>)) :
                 o \in RichOutputs}

\* The folder argument of the scan.
Folder == "runs"

\* str(run_folder) of an entry of the scanned folder.
PathOf(name) == Folder \o "/" \o name

\* The name of the run folder a synchronous run is saved in.
SyncName == "sync1"

\* The max_runs argument: None, or an int.
MaxRuns(n) == [is_none |-> FALSE, n |-> n]
NoMaxRuns == [is_none |-> TRUE, n |-> 0]
MaxRunsArgs == {NoMaxRuns} \cup {MaxRuns(n) : n \in -1..(MaxEntries + 1)}

\* No disk-inspection call has been made.
NoCall == [op |-> "none"]

-----------------------------------------------------------------------------
(* Initial state: a server built for one pipeline, nothing launched *)

Init ==
    /\ pipeline \in Pipelines
    /\ uuid_count = 0
    /\ clock = 0
    /\ job_registry = <<>>
    /\ task = <<>>
    /\ suspended = EmptyBag
    /\ n_returned = 0
    /\ n_cancelled = 0
    /\ root = NoRoot
    /\ disk_call = NoCall
    /\ disk_out = NoCall

-----------------------------------------------------------------------------
(* Suspended handlers: a bag, since several calls may wait at the same place
   with the same locals *)

\* The frame of a handler waiting in ctx.info: where it waits and its locals.
\* (run_folder is the actual_run_folder of a launch, arg the run_folder it was
\* called with.)
Frame(at, job_id, run_folder, arg) ==
    [at |-> at, job_id |-> job_id, run_folder |-> run_folder, arg |-> arg]

Suspend(f) == suspended (+) SetToBag({f})
Resume(f) == suspended (-) SetToBag({f})
Move(f, g) == (suspended (-) SetToBag({f})) (+) SetToBag({g})

Frames(at) == {f \in BagToSet(suspended) : f.at = at}

-----------------------------------------------------------------------------
(* _execute_pipeline_async *)

\* Lines 534-539: draw the job_id, derive the run folder, suspend in ctx.info.
LaunchBegin(run_folder) ==
    /\ BagCardinality(suspended) < MaxSuspended
    /\ uuid_count < MaxJobs
    /\ LET job_id == Uuid4(uuid_count + 1)
           actual_run_folder == PyOr(run_folder, "runs/job_" \o job_id)
       IN  /\ uuid_count' = uuid_count + 1
           /\ suspended' = Suspend(Frame("launch_info1", job_id, actual_run_folder, run_folder))
    /\ UNCHANGED <<disk_vars, pipeline, clock, job_registry, task, n_returned, n_cancelled>>

\* Lines 542-555: map_async schedules the task, the JobInfo is stored under
\* job_id, and the handler suspends in the second ctx.info.
LaunchRegister(f) ==
    /\ f \in Frames("launch_info1")
    /\ LET runner == Len(task) + 1
       IN  /\ task' = Append(task, NewTask)
           /\ job_registry' = DictSet(job_registry,
                  JobInfo(f.job_id, runner, clock, f.run_folder,
                          PyOr(pipeline.name, _DEFAULT_PIPELINE_NAME)))
    /\ clock' = clock + 1
    /\ suspended' = Move(f, [f EXCEPT !.at = "launch_info2"])
    /\ UNCHANGED <<disk_vars, pipeline, uuid_count, n_returned, n_cancelled>>

\* Lines 542-546: map_async raises at dispatch; the call ends with that
\* exception and nothing is stored.
LaunchDispatchFailsOut(f, e) == Raised("launch", f.job_id, e.type)

LaunchDispatchFails(f, e) ==
    /\ f \in Frames("launch_info1")
    /\ suspended' = Resume(f)
    /\ UNCHANGED <<disk_vars, pipeline, uuid_count, clock, job_registry, task, n_returned, n_cancelled>>

\* Line 556: the dict the call returns.
LaunchReturnOut(f) ==
    [op |-> "launch", kind |-> "ok", job_id |-> f.job_id, run_folder |-> f.run_folder]

\* Line 556: the call returns.
LaunchReturn(f) ==
    /\ f \in Frames("launch_info2")
    /\ n_returned' = n_returned + 1
    /\ suspended' = Resume(f)
    /\ UNCHANGED <<disk_vars, pipeline, uuid_count, clock, job_registry, task, n_cancelled>>

\* Lines 537-539 and 555: the await of ctx.info ends with an exception:
\* CancelledError when the request is cancelled while the handler waits
\* there, or an error of ctx.info itself.  Nothing in the handler catches
\* it, and the call ends with it.  In the first ctx.info nothing was
\* stored; in the second the job stays stored and its task keeps running,
\* and no job_id is returned.
LaunchCancelledOut(f) == Raised("launch", f.job_id, "CancelledError")

LaunchCancelled(f) ==
    /\ f \in Frames("launch_info1") \cup Frames("launch_info2")
    /\ n_cancelled' = IF f.at = "launch_info2" THEN n_cancelled + 1 ELSE n_cancelled
    /\ suspended' = Resume(f)
    /\ UNCHANGED <<disk_vars, pipeline, uuid_count, clock, job_registry, task, n_returned>>

-----------------------------------------------------------------------------
(* _check_job_status: no await and no store; the call is its return value *)

\* Lines 559-606: not found; or CancelledError out of task.exception() at
\* line 590; or the result_info dict.
CheckJobStatusOut(job_id) ==
    LET job == Get(job_registry, job_id)
    IN  IF job = NoJob THEN NotFound("status", job_id)
        ELSE LET t == task[job.runner]
             IN  IF TaskDone(t) /\ ExceptionRaises(t)
                 THEN Raised("status", job_id, "CancelledError")
                 ELSE ResultInfo(job, t)

CheckJobStatus(job_id) ==
    /\ job_id \in JobIdArgs
    /\ UNCHANGED vars

-----------------------------------------------------------------------------
(* _list_jobs: no await and no store; the call is its return value *)

\* Lines 623-641: the loop raises at the first job whose task.exception()
\* raises (line 637); otherwise one entry per job, in registry order.
ListJobsOut ==
    IF Len(job_registry) = 0
    THEN [op |-> "list", kind |-> "ok", jobs |-> <<>>, total_count |-> 0]
    ELSE LET bad == {i \in 1..Len(job_registry) :
                        LET t == task[job_registry[i].runner]
                        IN  TaskDone(t) /\ ExceptionRaises(t)}
         IN  IF bad # {}
             THEN Raised("list",
                         job_registry[CHOOSE i \in bad : \A k \in bad : i <= k].job_id,
                         "CancelledError")
             ELSE LET jobs_info == [i \in 1..Len(job_registry) |->
                          ListEntry(job_registry[i], task[job_registry[i].runner])]
                  IN  [op |-> "list", kind |-> "ok", jobs |-> jobs_info,
                       total_count |-> Len(jobs_info)]

ListJobs ==
    UNCHANGED vars

-----------------------------------------------------------------------------
(* _cancel_job *)

\* Line 620: the error dict for a job whose task is done.
AlreadyCompleted(job_id) ==
    [op |-> "cancel", kind |-> "ok", job_id |-> job_id,
     error |-> "Job not found or already completed"]

\* Line 619: the success dict.
Cancelled(job_id) ==
    [op |-> "cancel", kind |-> "ok", job_id |-> job_id, status |-> "cancelled"]

\* A cancel that skips the done() check of line 615.
CancelBranchNoDoneCheck(job_id) ==
    IF Get(job_registry, job_id) = NoJob THEN "not_found" ELSE "cancel"

\* Which of the three branches of lines 610-620 a call takes.
CancelBranch(job_id) ==
    LET job == Get(job_registry, job_id)
    IN  IF job = NoJob THEN "not_found"
        ELSE IF ~TaskDone(task[job.runner]) THEN "cancel"
        ELSE "done"

\* What a call made now returns (the success dict after its ctx.info).
CancelJobOut(job_id) ==
    CASE CancelBranch(job_id) = "not_found" -> NotFound("cancel", job_id)
      [] CancelBranch(job_id) = "cancel" -> Cancelled(job_id)
      [] CancelBranch(job_id) = "done" -> AlreadyCompleted(job_id)

\* Line 616: the runners whose task.cancel() a call invokes.
CancelJobCalls(job_id) ==
    IF CancelBranch(job_id) = "cancel" THEN {Get(job_registry, job_id).runner} ELSE {}

\* The tasks as a call leaves them.
CancelJobTasks(job_id) ==
    [r \in DOMAIN task |->
        IF r \in CancelJobCalls(job_id) THEN TaskCancel(task[r]) ELSE task[r]]

\* A cancel that stores a new record, started now, in place of the old one.
CancelJobRegistryRebuilt(job_id) ==
    IF CancelBranch(job_id) = "cancel"
    THEN [i \in 1..Len(job_registry) |->
             IF job_registry[i].job_id = job_id
             THEN [job_registry[i] EXCEPT !.status = "cancelled", !.started_at = clock]
             ELSE job_registry[i]]
    ELSE job_registry

\* Line 617: the registry as a call leaves it.
CancelJobRegistry(job_id) ==
    IF CancelBranch(job_id) = "cancel"
    THEN MarkCancelled(job_registry, job_id)
    ELSE job_registry

\* Lines 610-612: the job is not in the registry.
CancelJobNotFound(job_id) ==
    /\ CancelBranch(job_id) = "not_found"
    /\ task' = CancelJobTasks(job_id)
    /\ job_registry' = CancelJobRegistry(job_id)
    /\ UNCHANGED <<disk_vars, pipeline, uuid_count, clock, suspended, n_returned, n_cancelled>>

\* Lines 614-618: the task is not done: cancel it, store "cancelled" and
\* suspend in ctx.info.  Nothing awaits between done() and the store.
CancelJobRunning(job_id) ==
    /\ CancelBranch(job_id) = "cancel"
    /\ BagCardinality(suspended) < MaxSuspended
    /\ task' = CancelJobTasks(job_id)
    /\ job_registry' = CancelJobRegistry(job_id)
    /\ suspended' = Suspend(Frame("cancel_info", job_id, None, None))
    /\ UNCHANGED <<disk_vars, pipeline, uuid_count, clock, n_returned, n_cancelled>>

\* Lines 614-615 and 620: the task is done.
CancelJobDone(job_id) ==
    /\ CancelBranch(job_id) = "done"
    /\ task' = CancelJobTasks(job_id)
    /\ job_registry' = CancelJobRegistry(job_id)
    /\ UNCHANGED <<disk_vars, pipeline, uuid_count, clock, suspended, n_returned, n_cancelled>>

\* A cancel that returns only once the task has stopped.
CancelReturnWhenStopped(f) ==
    /\ f \in Frames("cancel_info")
    /\ TaskDone(task[Get(job_registry, f.job_id).runner])
    /\ suspended' = Resume(f)
    /\ UNCHANGED <<disk_vars, pipeline, uuid_count, clock, job_registry, task, n_returned, n_cancelled>>

\* Line 619: the call returns the success dict.
CancelReturn(f) ==
    /\ f \in Frames("cancel_info")
    /\ suspended' = Resume(f)
    /\ UNCHANGED <<disk_vars, pipeline, uuid_count, clock, job_registry, task, n_returned, n_cancelled>>

\* Line 618: the await of ctx.info ends with an exception (CancelledError
\* when the request is cancelled while the handler waits there) and the
\* call ends with it; the task was already asked to cancel and "cancelled"
\* is already stored (line 617).
CancelJobCancelledOut(f) == Raised("cancel", f.job_id, "CancelledError")

CancelJobCancelled(f) ==
    /\ f \in Frames("cancel_info")
    /\ suspended' = Resume(f)
    /\ UNCHANGED <<disk_vars, pipeline, uuid_count, clock, job_registry, task, n_returned, n_cancelled>>

-----------------------------------------------------------------------------
(* The background task of a job, run by the event loop *)

\* The coroutine returns its result.  A requested cancellation does not
\* prevent it: the coroutine may have passed its last await, or suppress the
\* CancelledError.
TaskReturns(r) ==
    /\ r \in 1..Len(task)
    /\ task[r].state = "pending"
    /\ task' = [task EXCEPT ![r].state = "result"]
    /\ UNCHANGED <<disk_vars, pipeline, uuid_count, clock, job_registry, suspended, n_returned, n_cancelled>>

\* The coroutine raises.
TaskRaises(r, e) ==
    /\ r \in 1..Len(task)
    /\ task[r].state = "pending"
    /\ task' = [task EXCEPT ![r].state = "exception", ![r].exc = e]
    /\ UNCHANGED <<disk_vars, pipeline, uuid_count, clock, job_registry, suspended, n_returned, n_cancelled>>

\* The CancelledError requested by cancel() ends the coroutine.
TaskCancelled(r) ==
    /\ r \in 1..Len(task)
    /\ task[r].state = "pending"
    /\ task[r].must_cancel
    /\ task' = [task EXCEPT ![r].state = "cancelled"]
    /\ UNCHANGED <<disk_vars, pipeline, uuid_count, clock, job_registry, suspended, n_returned, n_cancelled>>

-----------------------------------------------------------------------------
(* _progress_info_from_disk *)

\* The masked fraction instead of the filled one.
ArrayProgressMasked(data) ==
    IF data.resolved
    THEN FloatDiv(SumMask(data.mask), Len(data.mask))
    ELSE Unknown

\* Line 656: 1.0 - m / size
OneMinusQuotient(m, size) == FloatOneMinus(FloatDiv(m, size))

\* The same float for every array of up to MaxSize positions, worked out
\* once.
OneMinusQuotients ==
    [size \in 1..MaxSize |-> [m \in 0..size |-> OneMinusQuotient(m, size)]]

\* Lines 654-659: progress of a FileArray, where the division does not fail:
\* 1.0 - sum(mask) / size for a resolved shape, "unknown" otherwise.
ArrayProgress(data) ==
    IF ~data.resolved THEN Unknown
    ELSE IF Len(data.mask) \in DOMAIN OneMinusQuotients
    THEN OneMinusQuotients[Len(data.mask)][SumMask(data.mask)]
    ELSE OneMinusQuotient(SumMask(data.mask), Len(data.mask))

\* Lines 661-667: progress of a single-file output.
PathProgress(data) == IF data.exists THEN Float(1, <<>>) ELSE Float(0, <<>>)

\* Line 656 divides by data.size: ZeroDivisionError for a resolved shape of
\* no positions.
DividesByZero(data) ==
    data.kind = "array" /\ data.resolved /\ Len(data.mask) = 0

\* Lines 650-677: the dict stored under one output name.
OutputInfo(data) ==
    LET progress == IF data.kind = "array" THEN ArrayProgress(data)
                    ELSE PathProgress(data)
    IN  [progress |-> progress,
         complete |-> EqualsOne(progress),
         bytes |-> IF data.kind = "path" /\ ~data.exists THEN 0 ELSE data.nbytes]

\* Lines 648-678: the loop over all_output_names, from the names still to
\* visit, the outputs dict so far and all_complete so far.
RECURSIVE ProgressLoop(_, _, _, _)
ProgressLoop(names, store, outputs, all_complete) ==
    IF names = <<>>
    THEN [kind |-> "ok", outputs |-> outputs, all_complete |-> all_complete]
    ELSE LET data == store[Head(names)]
         IN  IF DividesByZero(data)
             THEN [kind |-> "raise", exc |-> "ZeroDivisionError"]
             ELSE ProgressLoop(Tail(names), store,
                               (Head(names) :> OutputInfo(data)) @@ outputs,
                               all_complete /\ OutputInfo(data).complete)

\* A loop that starts from all_complete = False.
ProgressInfoFromDiskStartsFalse(o) == ProgressLoop(o.names, o.store, <<>>, FALSE)

\* _progress_info_from_disk(run_info): (outputs, all_complete), or the
\* exception it ends with.
ProgressInfoFromDisk(o) == ProgressLoop(o.names, o.store, <<>>, TRUE)

-----------------------------------------------------------------------------
(* _list_historical_runs *)

\* The characters of a string, for the comparison of str values: the common
\* date-and-minute prefix of the model's times is kept as one item.
TwoDigits(n) == <<ToString(n \div 10), ToString(n % 10)>>
SixDigits(n) ==
    <<ToString(n \div 100000), ToString((n \div 10000) % 10),
      ToString((n \div 1000) % 10), ToString((n \div 100) % 10),
      ToString((n \div 10) % 10), ToString(n % 10)>>

\* datetime.fromtimestamp(st_mtime).isoformat() of a naive datetime (process
\* in UTC): the fraction is left out when the microsecond is 0.
IsoFormatOf(m) ==
    <<"1970-01-01T00:00:">> \o TwoDigits(m[1])
        \o (IF m[2] = 0 THEN <<>> ELSE <<".">> \o SixDigits(m[2]))

\* The same strings for the modification times of the model's files, worked
\* out once.
IsoFormats == [m \in Mtimes \cup {WriteTime} |-> IsoFormatOf(m)]

IsoFormatNaive(m) == IF m \in DOMAIN IsoFormats THEN IsoFormats[m] ELSE IsoFormatOf(m)

\* ord() of a character of those strings.
Ord(c) == IF c = "." THEN 46 ELSE 48 + (CHOOSE d \in 0..9 : ToString(d) = c)

\* a < b on str: the first differing character decides, a proper prefix is
\* smaller.
RECURSIVE StrLess(_, _)
StrLess(a, b) ==
    IF b = <<>> THEN FALSE
    ELSE IF a = <<>> THEN TRUE
    ELSE IF Head(a) = Head(b) THEN StrLess(Tail(a), Tail(b))
    ELSE Ord(Head(a)) < Ord(Head(b))

\* The content of the entry at a path below the scanned folder; a path that
\* does not exist has nothing in it.
ContentAt(r, path) ==
    LET at == {i \in 1..Len(r.entries) : PathOf(r.entries[i].name) = path}
    IN  IF at = {} THEN Entry(FALSE, "none", <<0, 0>>, None, NoOutputs)
        ELSE r.entries[CHOOSE i \in at : TRUE].content

\* Line 720: run_info_path.exists()
RunInfoPathExists(c) == c.is_dir /\ c.meta # "none"

\* json.loads(path.read_text()) of a metadata file: the dict, of which the
\* model keeps pipefunc_version, or the exception.
JsonLoads(c) ==
    IF ~RunInfoPathExists(c) THEN [kind |-> "raise", exc |-> "FileNotFoundError"]
    ELSE IF c.meta = "corrupt" THEN [kind |-> "raise", exc |-> "JSONDecodeError"]
    ELSE [kind |-> "ok", pipefunc_version |-> c.version]

\* RunInfo.load(run_folder): whether it returns a RunInfo.
RunInfoLoads(c) == c.is_dir /\ c.meta = "valid"

\* Whether a path names an entry of the scanned folder.
EntryAt(r, path) ==
    r.is_dir /\ \E i \in 1..Len(r.entries) : PathOf(r.entries[i].name) = path

\* str() of the OSError of open() on a path: its errno, strerror and the
\* quoted path.
OSErrorStr(errno, strerror, path) ==
    "[Errno " \o ToString(errno) \o "] " \o strerror \o ": '" \o path \o "'"

\* str() of the exception RunInfo.load(run_folder) ends with. Opening
\* run_folder/run_info.json fails with ENOTDIR when a component of the
\* path is a plain file and with ENOENT when nothing is at the path; a
\* file that is not JSON fails in json.load, and a JSON dict without the
\* fields of a RunInfo fails on the first of them.
RunInfoLoadError(r, run_folder) ==
    LET c == ContentAt(r, run_folder)
        path == run_folder \o "/run_info.json"
    IN  IF (r.exists /\ ~r.is_dir) \/ (EntryAt(r, run_folder) /\ ~c.is_dir)
        THEN OSErrorStr(20, "Not a directory", path)
        ELSE IF ~RunInfoPathExists(c)
        THEN OSErrorStr(2, "No such file or directory", path)
        ELSE IF c.meta = "corrupt" THEN "Expecting value: line 1 column 1 (char 0)"
        ELSE "'input_paths'"

\* Lines 715-727: the first loop, from the entries iterdir() still has to
\* yield and the locals so far: the count, the candidates and run_info_path
\* (the path of the last directory seen, None before the first).
RECURSIVE ScanLoop(_, _, _, _)
ScanLoop(entries, scanned_directories, candidates, run_info_path) ==
    IF entries = <<>>
    THEN [scanned_directories |-> scanned_directories, runs |-> candidates,
          run_info_path |-> run_info_path]
    ELSE LET e == Head(entries)
         IN  IF ~e.content.is_dir
             THEN ScanLoop(Tail(entries), scanned_directories + 1, candidates,
                           run_info_path)
             ELSE IF ~RunInfoPathExists(e.content)
             THEN ScanLoop(Tail(entries), scanned_directories + 1, candidates,
                           PathOf(e.name))
             ELSE ScanLoop(Tail(entries), scanned_directories + 1,
                           Append(candidates,
                                  [last_modified |-> IsoFormatNaive(e.content.mtime),
                                   run_folder |-> PathOf(e.name)]),
                           PathOf(e.name))

\* The candidates left in the order iterdir() yielded them.
SortSkipped(runs) == runs

\* Line 730: list.sort(key=itemgetter("last_modified"), reverse=True), a
\* stable sort: entries with equal keys keep the order they had.
RECURSIVE SortNewestFirst(_)
SortNewestFirst(runs) ==
    IF runs = <<>> THEN <<>>
    ELSE LET n == Len(runs)
             sorted == SortNewestFirst(SubSeq(runs, 1, n - 1))
             x == runs[n]
             smaller == {i \in 1..(n - 1) :
                            StrLess(sorted[i].last_modified, x.last_modified)}
             k == IF smaller = {} THEN n
                  ELSE CHOOSE i \in smaller : \A j \in smaller : i <= j
         IN  SubSeq(sorted, 1, k - 1) \o <<x>> \o SubSeq(sorted, k, n - 1)

\* A truncation without the test for a positive max_runs.
TruncateNoPositiveCheck(runs, max_runs) ==
    IF ~max_runs.is_none
    THEN SubSeq(runs, 1, IF max_runs.n < Len(runs) THEN max_runs.n ELSE Len(runs))
    ELSE runs

\* Lines 732-733: runs[:max_runs] when max_runs is given and positive.
Truncate(runs, max_runs) ==
    IF ~max_runs.is_none /\ max_runs.n > 0
    THEN SubSeq(runs, 1, IF max_runs.n < Len(runs) THEN max_runs.n ELSE Len(runs))
    ELSE runs

\* Lines 715-733: the candidates the second loop visits, in its order.
Kept(r, max_runs) ==
    Truncate(SortNewestFirst(ScanLoop(r.entries, 0, <<>>, None).runs), max_runs)

\* Lines 735-746: the second loop, from the entries still to visit, the
\* entries visited and total_count so far.  run_info_path is still the local
\* of the first loop.
RECURSIVE SummarizeLoop(_, _, _, _, _)
SummarizeLoop(r, todo, visited, total_count, run_info_path) ==
    IF todo = <<>>
    THEN [kind |-> "ok", runs |-> visited, total_count |-> total_count]
    ELSE LET run_entry == Head(todo)
             c == ContentAt(r, run_entry.run_folder)
             run_info_json == JsonLoads(ContentAt(r, run_info_path))
             progress == ProgressInfoFromDisk(c.outputs)
         IN  IF ~RunInfoLoads(c)
             THEN SummarizeLoop(r, Tail(todo), Append(visited, run_entry),
                                total_count, run_info_path)
             ELSE IF run_info_json.kind = "raise" THEN run_info_json
             ELSE IF progress.kind = "raise" THEN progress
             ELSE SummarizeLoop(r, Tail(todo),
                      Append(visited,
                          [last_modified |-> run_entry.last_modified,
                           run_folder |-> run_entry.run_folder,
                           all_complete |-> progress.all_complete,
                           total_outputs |-> Cardinality(DOMAIN progress.outputs),
                           completed_outputs |->
                               Cardinality({n \in DOMAIN progress.outputs :
                                               progress.outputs[n].complete}),
                           pipefunc_version |->
                               IF run_info_json.pipefunc_version = None
                               THEN "unknown"
                               ELSE run_info_json.pipefunc_version]),
                      total_count + 1, run_info_path)

\* A _Runs dict whose error is never set.
RunsNoError(runs, total_count, scanned_directories, error) ==
    [op |-> "list", kind |-> "ok", runs |-> runs, total_count |-> total_count,
     folder |-> Folder, scanned_directories |-> scanned_directories,
     error |-> None]

\* The _Runs dict.
Runs(runs, total_count, scanned_directories, error) ==
    [op |-> "list", kind |-> "ok", runs |-> runs, total_count |-> total_count,
     folder |-> Folder, scanned_directories |-> scanned_directories,
     error |-> error]

\* Lines 698-748: what _list_historical_runs(folder, max_runs) returns, or
\* the exception it ends with.
ListHistoricalRunsOut(r, max_runs) ==
    IF ~r.exists THEN Runs(<<>>, 0, 0, "Folder '" \o Folder \o "' does not exist")
    ELSE IF ~r.is_dir THEN Runs(<<>>, 0, 0, "'" \o Folder \o "' is not a directory")
    ELSE LET scan == ScanLoop(r.entries, 0, <<>>, None)
             summary == SummarizeLoop(r, Kept(r, max_runs), <<>>, 0, scan.run_info_path)
         IN  IF summary.kind = "raise"
             THEN [op |-> "list", kind |-> "raise", exc |-> summary.exc]
             ELSE Runs(summary.runs, summary.total_count, scan.scanned_directories, None)

ListHistoricalRuns(max_runs) ==
    /\ disk_call' = [op |-> "list", max_runs |-> max_runs, run_folder |-> None]
    /\ disk_out' = ListHistoricalRunsOut(root, max_runs)
    /\ UNCHANGED <<job_vars, root>>

-----------------------------------------------------------------------------
(* _run_info *)

\* The run_folder arguments: the entries of the scanned folder, a path
\* with nothing at it, and the folder a synchronous run is saved in.
RunInfoArgs == {PathOf(EntryName(i)) : i \in 1..(MaxEntries + 1)} \cup {PathOf(SyncName)}

\* Lines 751-759: the error dict, or the exception the call ends with, or
\* the dict of metadata, outputs and all_complete.
RunInfoOut(r, run_folder) ==
    LET c == ContentAt(r, run_folder)
        progress == ProgressInfoFromDisk(c.outputs)
    IN  IF ~r.is_dir \/ ~RunInfoLoads(c)
        THEN [op |-> "run_info", kind |-> "ok",
              error |-> RunInfoLoadError(r, run_folder)]
        ELSE IF progress.kind = "raise"
        THEN [op |-> "run_info", kind |-> "raise", exc |-> progress.exc]
        ELSE [op |-> "run_info", kind |-> "ok",
              run_info |-> JsonLoads(c),
              outputs |-> progress.outputs,
              all_complete |-> progress.all_complete]

RunInfo(run_folder) ==
    /\ disk_call' = [op |-> "run_info", max_runs |-> NoMaxRuns, run_folder |-> run_folder]
    /\ disk_out' = RunInfoOut(root, run_folder)
    /\ UNCHANGED <<job_vars, root>>

-----------------------------------------------------------------------------
(* _execute_pipeline_sync *)

\* The run_folder arguments of execute_pipeline_sync: None (nothing is
\* saved below the scanned folder) and a folder below it.
SyncArgs == {None, PathOf(SyncName)}

\* How pipeline.map ends other than by returning: it raises while the
\* functions run, or before anything is saved (inputs it rejects, a run
\* folder it cannot make).
MapFailures == {"raises", "rejects"}

\* The run folder pipeline.map leaves behind: the metadata of the running
\* version, and the output, which is there when map returned and missing
\* when it raised.
WrittenRun(outcome) ==
    Entry(TRUE, "valid", WriteTime, "0.2.0",
          Outputs(<<"y1">>,
                  [n \in {"y1"} |-> IF outcome = "returns" THEN PathData(TRUE, 8)
                                    ELSE PathData(FALSE, 0)]))

\* The entries of a folder after an entry was put in front of position at.
InsertAt(entries, at, e) ==
    SubSeq(entries, 1, at - 1) \o <<e>> \o SubSeq(entries, at, Len(entries))

\* The entries of a folder without those of a name.
RECURSIVE Without(_, _)
Without(entries, name) ==
    IF entries = <<>> THEN <<>>
    ELSE IF Head(entries).name = name THEN Without(Tail(entries), name)
    ELSE <<Head(entries)>> \o Without(Tail(entries), name)

\* The places iterdir() may yield a run folder written now: any place among
\* the other entries.
Places(r, name) == 1..(Len(Without(r.entries, name)) + 1)

\* The scanned folder after pipeline.map(run_folder=...) saved a run below
\* it: the folder is made when it is missing, a run folder of the same name
\* is written anew, and iterdir() yields the run folder at place at.
MapWrites(r, name, outcome, at) ==
    Root(TRUE, TRUE,
         InsertAt(Without(r.entries, name), at,
                  [name |-> name, content |-> WrittenRun(outcome)]))

\* Whether pipeline.map can save a run below the scanned folder: not below
\* a plain file, and in the model not in a folder that is full.
CanSave(r) ==
    /\ ~r.exists \/ r.is_dir
    /\ Len(Without(r.entries, SyncName)) <= MaxSyncEntries

\* The call record and the result of a call of execute_pipeline_sync that
\* has ended.
SyncCall(f) == [op |-> "sync", max_runs |-> NoMaxRuns, run_folder |-> f.run_folder]
SyncOut(kind) == [op |-> "sync", kind |-> kind]

\* Line 509: the call suspends in the first ctx.info.
SyncBegin(run_folder) ==
    /\ BagCardinality(suspended) < MaxSyncCalls
    /\ suspended' = Suspend(Frame("sync_info1", None, run_folder, run_folder))
    /\ UNCHANGED <<disk_vars, pipeline, uuid_count, clock, job_registry, task, n_returned, n_cancelled>>

\* Lines 510-515: pipeline.map runs to its end without yielding and returns;
\* the run is saved, and the call suspends in the second ctx.info. No call
\* has been made on the folder as it is now.
SyncMapReturns(f, at) ==
    /\ f \in Frames("sync_info1")
    /\ IF f.run_folder = PathOf(SyncName)
       THEN /\ CanSave(root)
            /\ at \in Places(root, SyncName)
            /\ root' = MapWrites(root, SyncName, "returns", at)
            /\ disk_call' = NoCall
            /\ disk_out' = NoCall
       ELSE /\ at = 1
            /\ UNCHANGED disk_vars
    /\ suspended' = Move(f, [f EXCEPT !.at = "sync_info2"])
    /\ UNCHANGED <<pipeline, uuid_count, clock, job_registry, task, n_returned, n_cancelled>>

\* Lines 510-514: pipeline.map raises; the call ends with that exception,
\* and what map had saved by then stays.
SyncMapRaises(f, failure, at) ==
    /\ f \in Frames("sync_info1")
    /\ IF f.run_folder = PathOf(SyncName) /\ failure = "raises"
       THEN /\ CanSave(root)
            /\ at \in Places(root, SyncName)
            /\ root' = MapWrites(root, SyncName, "raises", at)
       ELSE /\ at = 1
            /\ root' = root
    /\ disk_call' = SyncCall(f)
    /\ disk_out' = SyncOut("raise")
    /\ suspended' = Resume(f)
    /\ UNCHANGED <<pipeline, uuid_count, clock, job_registry, task, n_returned, n_cancelled>>

\* Lines 516-525: the call returns str(output).
SyncReturn(f) ==
    /\ f \in Frames("sync_info2")
    /\ disk_call' = SyncCall(f)
    /\ disk_out' = SyncOut("ok")
    /\ suspended' = Resume(f)
    /\ UNCHANGED <<root, pipeline, uuid_count, clock, job_registry, task, n_returned, n_cancelled>>

\* Lines 509 and 515: the request is cancelled while the call waits in
\* ctx.info; the await raises CancelledError and the call ends with it.
SyncCancelled(f) ==
    /\ f \in Frames("sync_info1") \cup Frames("sync_info2")
    /\ disk_call' = SyncCall(f)
    /\ disk_out' = SyncOut("raise")
    /\ suspended' = Resume(f)
    /\ UNCHANGED <<root, pipeline, uuid_count, clock, job_registry, task, n_returned, n_cancelled>>

-----------------------------------------------------------------------------
(* The disk inspection on its own: any folder, any sequence of calls *)

DiskInit ==
    /\ pipeline \in Pipelines
    /\ uuid_count = 0
    /\ clock = 0
    /\ job_registry = <<>>
    /\ task = <<>>
    /\ suspended = EmptyBag
    /\ n_returned = 0
    /\ n_cancelled = 0
    /\ root \in Roots
    /\ disk_call = NoCall
    /\ disk_out = NoCall

DiskNext ==
    \/ \E max_runs \in MaxRunsArgs : ListHistoricalRuns(max_runs)
    \/ \E run_folder \in RunInfoArgs : RunInfo(run_folder)

DiskSpec == DiskInit /\ [][DiskNext]_vars

-----------------------------------------------------------------------------
(* Synchronous runs and the disk inspection: the folder as calls of
   execute_pipeline_sync change it, seen by the inspection at every point
   where such a call is suspended *)

\* The folders a synchronous run is saved in: missing, a plain file, or a
\* directory of up to MaxSyncEntries entries.
SyncRoots ==
    {NoRoot, Root(TRUE, FALSE, <<>>)}
        \cup {Root(TRUE, TRUE, Named(c)) :
                 c \in UNION {[1..n -> EntryContents] : n \in 0..MaxSyncEntries}}

SyncInit ==
    /\ pipeline \in Pipelines
    /\ uuid_count = 0
    /\ clock = 0
    /\ job_registry = <<>>
    /\ task = <<>>
    /\ suspended = EmptyBag
    /\ n_returned = 0
    /\ n_cancelled = 0
    /\ root \in SyncRoots
    /\ disk_call = NoCall
    /\ disk_out = NoCall

SyncNext ==
    \/ \E run_folder \in SyncArgs : SyncBegin(run_folder)
    \/ \E f \in BagToSet(suspended), at \in 1..(MaxSyncEntries + 1) : SyncMapReturns(f, at)
    \/ \E f \in BagToSet(suspended), failure \in MapFailures, at \in 1..(MaxSyncEntries + 1) :
          SyncMapRaises(f, failure, at)
    \/ \E f \in BagToSet(suspended) : SyncReturn(f)
    \/ \E f \in BagToSet(suspended) : SyncCancelled(f)
    \/ \E max_runs \in MaxRunsArgs : ListHistoricalRuns(max_runs)
    \/ \E run_folder \in RunInfoArgs : RunInfo(run_folder)

SyncSpec == SyncInit /\ [][SyncNext]_vars

-----------------------------------------------------------------------------
(* The job manager on its own: every interleaving of the handlers at their
   suspension points, of the requests cancelled there, and of the tasks.
   Every job is launched without a run_folder. *)

Next ==
    \/ LaunchBegin(None)
    \/ \E f \in BagToSet(suspended) : LaunchRegister(f)
    \/ \E f \in BagToSet(suspended), e \in Exceptions : LaunchDispatchFails(f, e)
    \/ \E f \in BagToSet(suspended) : LaunchReturn(f)
    \/ \E f \in BagToSet(suspended) : LaunchCancelled(f)
    \/ \E j \in JobIdArgs : CheckJobStatus(j)
    \/ ListJobs
    \/ \E j \in JobIdArgs : CancelJobNotFound(j)
    \/ \E j \in JobIdArgs : CancelJobRunning(j)
    \/ \E j \in JobIdArgs : CancelJobDone(j)
    \/ \E f \in BagToSet(suspended) : CancelReturn(f)
    \/ \E f \in BagToSet(suspended) : CancelJobCancelled(f)
    \/ \E r \in 1..MaxJobs : TaskReturns(r)
    \/ \E r \in 1..MaxJobs, e \in Exceptions : TaskRaises(r, e)
    \/ \E r \in 1..MaxJobs : TaskCancelled(r)

Spec == Init /\ [][Next]_vars

-----------------------------------------------------------------------------
(* The job manager, the first job launched with any run_folder argument *)

FolderNext ==
    \/ \E rf \in RunFolderArgs : uuid_count = 0 /\ LaunchBegin(rf)
    \/ uuid_count > 0 /\ LaunchBegin(None)
    \/ \E f \in BagToSet(suspended) : LaunchRegister(f)
    \/ \E f \in BagToSet(suspended), e \in Exceptions : LaunchDispatchFails(f, e)
    \/ \E f \in BagToSet(suspended) : LaunchReturn(f)
    \/ \E f \in BagToSet(suspended) : LaunchCancelled(f)
    \/ \E j \in JobIdArgs : CheckJobStatus(j)
    \/ ListJobs
    \/ \E j \in JobIdArgs : CancelJobNotFound(j)
    \/ \E j \in JobIdArgs : CancelJobRunning(j)
    \/ \E j \in JobIdArgs : CancelJobDone(j)
    \/ \E f \in BagToSet(suspended) : CancelReturn(f)
    \/ \E f \in BagToSet(suspended) : CancelJobCancelled(f)
    \/ \E r \in 1..MaxJobs : TaskReturns(r)
    \/ \E r \in 1..MaxJobs, e \in Exceptions : TaskRaises(r, e)
    \/ \E r \in 1..MaxJobs : TaskCancelled(r)

FolderSpec == Init /\ [][FolderNext]_vars

-----------------------------------------------------------------------------
(* The job manager beside the disk inspection, from the state in which one
   start_async_job call has returned: every inspection call runs beside a
   stored job.  The jobs are given a run folder outside the scanned folder,
   so that no task writes into what the inspection reads: the scanned folder
   stays as it was found. *)

\* The scanned folder: missing, or a directory with one complete run.
FrameRoots ==
    { NoRoot,
      Root(TRUE, TRUE,
           Named(<<Entry(TRUE, "valid", <<9, 0>>, "0.1.0",
                         Outputs(<<"y1">>, [n \in {"y1"} |-> PathData(TRUE, 8)]))>>)) }

FrameInit ==
    /\ pipeline \in Pipelines
    /\ uuid_count = 1
    /\ clock = 1
    /\ job_registry = DictSet(<<>>, JobInfo(Uuid4(1), 1, 0, OutsideRunFolder,
                                            PyOr(pipeline.name, _DEFAULT_PIPELINE_NAME)))
    /\ task = <<NewTask>>
    /\ suspended = EmptyBag
    /\ n_returned = 1
    /\ n_cancelled = 0
    /\ root \in FrameRoots
    /\ disk_call = NoCall
    /\ disk_out = NoCall

FrameNext ==
    \/ LaunchBegin(OutsideRunFolder)
    \/ \E f \in BagToSet(suspended) : LaunchRegister(f)
    \/ \E f \in BagToSet(suspended), e \in Exceptions : LaunchDispatchFails(f, e)
    \/ \E f \in BagToSet(suspended) : LaunchReturn(f)
    \/ \E f \in BagToSet(suspended) : LaunchCancelled(f)
    \/ \E j \in JobIdArgs : CheckJobStatus(j)
    \/ ListJobs
    \/ \E j \in JobIdArgs : CancelJobNotFound(j)
    \/ \E j \in JobIdArgs : CancelJobRunning(j)
    \/ \E j \in JobIdArgs : CancelJobDone(j)
    \/ \E f \in BagToSet(suspended) : CancelReturn(f)
    \/ \E f \in BagToSet(suspended) : CancelJobCancelled(f)
    \/ \E r \in 1..MaxJobs : TaskReturns(r)
    \/ \E r \in 1..MaxJobs, e \in Exceptions : TaskRaises(r, e)
    \/ \E r \in 1..MaxJobs : TaskCancelled(r)
    \/ ListHistoricalRuns(NoMaxRuns)
    \/ RunInfo(PathOf(EntryName(1)))

FrameSpec == FrameInit /\ [][FrameNext]_vars

-----------------------------------------------------------------------------
(* Properties of the job registry *)

Registered == Keys(job_registry)
Stored(j) == Get(job_registry, j)
TaskOf(j) == task[Stored(j).runner]

\* How many handlers are suspended at `at`.
SuspendedAt(at) == BagCardinality([f \in Frames(at) |-> suspended[f]])

\* A cancel_job call on j stored "cancelled" and has returned.
CancelReturned(j) ==
    /\ j \in Registered
    /\ Stored(j).status = "cancelled"
    /\ \A f \in Frames("cancel_info") : f.job_id # j

\* The start_async_job call that registered j is over: it has returned, or
\* it ended with an exception after the job was stored.
LaunchReturned(j) ==
    /\ j \in Registered
    /\ \A f \in Frames("launch_info2") : f.job_id # j

\* The entry of job j in a list_jobs response.
ListedEntries(resp, j) == {i \in 1..Len(resp.jobs) : resp.jobs[i].job_id = j}

\* C1: the registry never reports a job as completed and as cancelled at the
\* same time: no status query answers "completed" for a job whose stored
\* status, the one list_jobs reports, is "cancelled".
C1_NeverCompletedAndCancelled ==
    \A j \in Registered :
        ~ /\ CheckJobStatusOut(j).kind = "ok"
          /\ CheckJobStatusOut(j).status = "completed"
          /\ Stored(j).status = "cancelled"

\* C2: a job is registered with status "running"; its stored status changes
\* only from "running" to completed, cancelled or failed, and never changes
\* once it is one of those.
C2_StatusLifecycle ==
    [][ job_registry' # job_registry =>
          /\ \A j \in Keys(job_registry') \ Registered :
                Get(job_registry', j).status = "running"
          /\ \A j \in Registered \cap Keys(job_registry') :
                Get(job_registry', j).status # Stored(j).status
                    => /\ Stored(j).status = "running"
                       /\ Get(job_registry', j).status
                              \in {"completed", "cancelled", "failed"} ]_vars

\* C2 witness: a job was cancelled, its task is done, and a further
\* cancel_job on it finds it done.
C2_Witness ==
    \E j \in Registered :
        /\ Stored(j).status = "cancelled"
        /\ TaskDone(TaskOf(j))
        /\ CancelReturned(j)

\* C3: get_job_status, list_jobs and cancel_job return a response and do not
\* raise, for a registered job in any state of its task.
C3_NeverRaise ==
    \A j \in Registered :
        /\ CheckJobStatusOut(j).kind = "ok"
        /\ ListJobsOut.kind = "ok"
        /\ CancelJobOut(j).kind = "ok"

\* C4: cancel_job on a job whose task is not done calls cancel() on that
\* task, stores "cancelled", and returns the success dict with that job_id
\* and status "cancelled"; once it has returned, list_jobs reports the job
\* as "cancelled".
C4_CancelledIsListed ==
    \A j \in Registered :
        /\ ~TaskDone(TaskOf(j)) =>
              /\ CancelJobCalls(j) = {Stored(j).runner}
              /\ Get(CancelJobRegistry(j), j).status = "cancelled"
              /\ CancelJobOut(j) = Cancelled(j)
        /\ CancelReturned(j) =>
              /\ ListJobsOut.kind = "ok"
              /\ \E i \in ListedEntries(ListJobsOut, j) :
                    ListJobsOut.jobs[i].status = "cancelled"

\* C5: a cancel_job call on a registered job whose task is done calls no
\* cancel(), returns the already-completed error, and leaves the registry
\* and the tasks as they were.
C5_CancelDoneNoEffect ==
    \A j \in Registered :
        TaskOf(j).state # "pending" =>
            /\ CancelJobCalls(j) = {}
            /\ CancelJobOut(j) = AlreadyCompleted(j)
            /\ CancelJobRegistry(j) = job_registry
            /\ CancelJobTasks(j) = task

\* C5 witness: jobs whose tasks ended with a result, with an error and as
\* cancelled are answered with the already-completed error.
C5_Witness ==
    /\ \E j \in Registered : TaskOf(j).state = "exception" /\ Stored(j).status = "running"
    /\ \E j \in Registered : TaskOf(j).state = "cancelled"
    /\ \A j \in Registered : CancelJobOut(j) = AlreadyCompleted(j)

\* C6: for a job_id that is no key of the registry, get_job_status and
\* cancel_job answer "Job not found" without raising, and the call calls
\* nothing on any task and leaves the registry as it was.
C6_UnknownJobNotFound ==
    \A j \in JobIdArgs \ {job_registry[i].job_id : i \in 1..Len(job_registry)} :
        /\ CheckJobStatusOut(j) = NotFound("status", j)
        /\ CancelJobOut(j) = NotFound("cancel", j)
        /\ CancelJobCalls(j) = {}
        /\ CancelJobRegistry(j) = job_registry
        /\ CancelJobTasks(j) = task

\* C6 witness: jobs are registered and running, and a query names an id
\* that is not among them.
C6_Witness ==
    /\ \E j \in Registered : ~TaskDone(TaskOf(j))
    /\ \E j \in JobIdArgs \ Registered : CancelJobOut(j) = NotFound("cancel", j)

\* C7 as claimed: the total_count of list_jobs equals the number of
\* start_async_job calls that have returned.
C7_CountEqualsReturned ==
    ListJobsOut.kind = "ok" => ListJobsOut.total_count = n_returned

\* How many start_async_job calls have stored their job: those that
\* returned, those still suspended in their last ctx.info, and those that
\* ended with an exception in that ctx.info.
StoredCalls == n_returned + SuspendedAt("launch_info2") + n_cancelled

\* C7 amended: the total_count of list_jobs equals the number of
\* start_async_job calls that have stored their job: those that returned,
\* those still suspended in their last ctx.info, and those that ended with
\* an exception in it.  Every store is still in the registry: the i-th
\* entry is the i-th job stored, with the task scheduled for it, and no key
\* occurs twice.
C7_CountEqualsStored ==
    /\ Len(job_registry) = StoredCalls
    /\ Cardinality(Registered) = Len(job_registry)
    /\ Len(task) = Len(job_registry)
    /\ \A i \in 1..Len(job_registry) :
          job_registry[i].runner = i
    /\ ListJobsOut.kind = "ok" => ListJobsOut.total_count = StoredCalls

\* C7 witness: one launch has returned, another was cancelled in its last
\* ctx.info, and list_jobs counts both jobs.
C7_Witness ==
    /\ n_returned = 1
    /\ n_cancelled = 1
    /\ suspended = EmptyBag
    /\ ListJobsOut.kind = "ok"
    /\ ListJobsOut.total_count = 2

\* C8: once a status query has seen the task of a job done, the stored
\* status of the job is no longer "running".
C8_StatusUpdatedOnQuery ==
    \A j \in Registered :
        (CheckJobStatusOut(j).kind = "ok" /\ CheckJobStatusOut(j).status = "completed")
            => Stored(j).status # "running"

\* C9: for a task that ended with an error, get_job_status returns a response
\* whose error is the string form of that error and that carries no results,
\* and list_jobs marks the job has_error; for a task that is pending or
\* ended with a result, error is None and has_error is false.
C9_ErrorSurfaced ==
    \A j \in Registered :
        LET t == TaskOf(j)
            resp == CheckJobStatusOut(j)
            listed == ListJobsOut
        IN  /\ t.state = "exception" =>
                  /\ resp.kind = "ok"
                  /\ resp.error = t.exc.args
                  /\ ~resp.has_results
                  /\ listed.kind = "ok" =>
                        \A i \in ListedEntries(listed, j) : listed.jobs[i].has_error
            /\ t.state \in {"pending", "result"} =>
                  /\ resp.kind = "ok"
                  /\ resp.error = None
                  /\ resp.has_results = (t.state = "result")
                  /\ listed.kind = "ok" =>
                        \A i \in ListedEntries(listed, j) : ~listed.jobs[i].has_error

\* C9 witness: one task ended with an error, another ended with a result, and
\* list_jobs returns entries for both.
C9_Witness ==
    /\ \E j \in Registered : TaskOf(j).state = "exception"
    /\ \E j \in Registered : TaskOf(j).state = "result"
    /\ ListJobsOut.kind = "ok"
    /\ \A j \in Registered : ListedEntries(ListJobsOut, j) # {}

\* C10: a status query made after start_async_job has returned and before
\* the task is done reports "running", the run_folder of the job, and one
\* progress entry for each output name of the progress tracker.
C10_ImmediateStatus ==
    \A j \in Registered :
        (LaunchReturned(j) /\ TaskOf(j).state = "pending") =>
            LET resp == CheckJobStatusOut(j)
            IN  /\ resp.kind = "ok"
                /\ resp.status = "running"
                /\ resp.run_folder = Stored(j).run_folder
                /\ Cardinality(DOMAIN resp.progress) = Cardinality(pipeline.outputs)
                /\ \A n \in pipeline.outputs :
                      Cardinality({k \in DOMAIN resp.progress : resp.progress[k] = n}) = 1

\* C10 witness: a pipeline with str and tuple output names, a launch that has
\* returned, and the task still pending.
C10_Witness ==
    /\ Cardinality(pipeline.outputs) = 3
    /\ \E j \in Registered :
          /\ LaunchReturned(j)
          /\ TaskOf(j).state = "pending"
          /\ CheckJobStatusOut(j).status = "running"

-----------------------------------------------------------------------------
(* Properties of start_async_job and of the handlers' waiting *)

DefaultRunFolder(j) == "runs/job_" \o j

\* Two jobs of the registry have different ids, and different run folders
\* when both folders are the default of their id.
DefaultFoldersDiffer ==
    \A i, k \in 1..Len(job_registry) :
        i # k =>
            /\ job_registry[i].job_id # job_registry[k].job_id
            /\ ( /\ job_registry[i].run_folder = DefaultRunFolder(job_registry[i].job_id)
                 /\ job_registry[k].run_folder = DefaultRunFolder(job_registry[k].job_id) )
                   => job_registry[i].run_folder # job_registry[k].run_folder

\* C11 as claimed: a start_async_job call about to return has stored and
\* returns 'runs/job_<job_id>' when it was called without a run_folder and
\* the supplied path when it was called with one; two jobs launched without
\* a run_folder have different ids and folders.
C11_SuppliedFolderKept ==
    /\ \A f \in Frames("launch_info2") :
          /\ LaunchReturnOut(f).job_id = f.job_id
          /\ LaunchReturnOut(f).run_folder = Stored(f.job_id).run_folder
          /\ f.arg = None => Stored(f.job_id).run_folder = DefaultRunFolder(f.job_id)
          /\ f.arg # None => Stored(f.job_id).run_folder = f.arg
    /\ DefaultFoldersDiffer

\* C11 amended: as claimed for a call without a run_folder and for a call
\* with a non-empty run_folder; a call with the empty string as run_folder
\* stores and returns 'runs/job_<job_id>' like a call without one.
C11_NonEmptyFolderKept ==
    /\ \A f \in Frames("launch_info2") :
          /\ LaunchReturnOut(f).job_id = f.job_id
          /\ LaunchReturnOut(f).run_folder = Stored(f.job_id).run_folder
          /\ f.arg \in {None, ""} => Stored(f.job_id).run_folder = DefaultRunFolder(f.job_id)
          /\ f.arg \notin {None, ""} => Stored(f.job_id).run_folder = f.arg
    /\ DefaultFoldersDiffer

\* C11 witness: a call with a run_folder is about to return it, next to a
\* job that was given the default folder of its id.
C11_Witness ==
    /\ \E f \in Frames("launch_info2") :
          /\ f.arg = "my_runs/a"
          /\ LaunchReturnOut(f).run_folder = "my_runs/a"
    /\ \E j \in Registered : Stored(j).run_folder = DefaultRunFolder(j)

\* C12: no handler waits for a task: whatever the state of the tasks, a
\* suspended start_async_job can go on to schedule, store and return, a
\* suspended cancel_job can return, and get_job_status, list_jobs and
\* cancel_job on a job whose task is not done can run and return at once.
C12_NoWaitForTask ==
    /\ \A f \in Frames("launch_info1") : ENABLED LaunchRegister(f)
    /\ \A f \in Frames("launch_info2") : ENABLED LaunchReturn(f)
    /\ \A f \in Frames("cancel_info") : ENABLED CancelReturn(f)
    /\ ENABLED ListJobs
    /\ \A j \in Registered :
          TaskOf(j).state = "pending" =>
              /\ ENABLED CheckJobStatus(j)
              /\ CheckJobStatusOut(j).kind = "ok"
              /\ BagCardinality(suspended) < MaxSuspended => ENABLED CancelJobRunning(j)

\* C12 witness: a cancel_job call is about to return while the task it
\* cancelled has not stopped, and a start_async_job call returned while its
\* task is pending.
C12_Witness ==
    /\ \E f \in Frames("cancel_info") : TaskOf(f.job_id).state = "pending"
    /\ n_returned > 0

-----------------------------------------------------------------------------
(* Properties of the disk inspection *)

\* A list_historical_runs call on an existing directory was made, and it
\* returned.
Listed == disk_call.op = "list" /\ root.exists /\ root.is_dir
ListedOk == Listed /\ disk_out.kind = "ok"

\* The entries of the scanned folder by what they are on disk.
Subdirs == {i \in 1..Len(root.entries) : root.entries[i].content.is_dir}
WithMetadata == {i \in Subdirs : root.entries[i].content.meta # "none"}
Loadable == {i \in Subdirs : root.entries[i].content.meta = "valid"}

\* The entry of the scanned folder a returned run_folder names.
EntryOf(run_folder) ==
    CHOOSE i \in 1..Len(root.entries) : run_folder = "runs/" \o root.entries[i].name

\* The run folders of a list of run entries.
FoldersOf(runs) == {runs[k].run_folder : k \in 1..Len(runs)}

SummaryFields == {"all_complete", "total_outputs", "completed_outputs", "pipefunc_version"}

\* m1 <= m2 on modification times.
MtimeLeq(m1, m2) == m1[1] < m2[1] \/ (m1[1] = m2[1] /\ m1[2] <= m2[2])

\* C13: a returned listing holds only candidates whose metadata loaded, each
\* of them with all summary fields, and total_count is the length of the
\* returned list.
C13_FailedCandidatesDropped ==
    ListedOk =>
        /\ \A k \in 1..Len(disk_out.runs) :
              /\ EntryOf(disk_out.runs[k].run_folder) \in Loadable
              /\ SummaryFields \subseteq DOMAIN disk_out.runs[k]
        /\ disk_out.total_count = Len(disk_out.runs)

\* No output of an entry of the scanned folder is an array of no positions.
NoEmptyArray ==
    \A i \in 1..Len(root.entries) :
        LET o == root.entries[i].content.outputs
        IN  \A k \in 1..Len(o.names) :
                ~(o.store[o.names[k]].kind = "array" /\ o.store[o.names[k]].resolved
                    /\ Len(o.store[o.names[k]].mask) = 0)

\* C14: list_historical_runs on an existing directory returns, whatever the
\* entries (run folders, subdirectories without metadata or with unreadable
\* metadata, plain files) and their order, and lists every loadable run
\* folder that is among the candidates kept.
C14_ListingNeverAborts ==
    (Listed /\ NoEmptyArray) =>
        /\ disk_out.kind = "ok"
        /\ \A i \in Loadable :
              "runs/" \o root.entries[i].name \in FoldersOf(Kept(root, disk_call.max_runs))
                  => "runs/" \o root.entries[i].name \in FoldersOf(disk_out.runs)

\* C15: the returned entries are ordered newest first: of two entries the
\* earlier has the later or the same modification time of its metadata
\* file, and its last_modified is not the smaller string.
C15_NewestFirst ==
    ListedOk =>
        \A i, k \in 1..Len(disk_out.runs) :
            i < k =>
                /\ MtimeLeq(root.entries[EntryOf(disk_out.runs[k].run_folder)].content.mtime,
                            root.entries[EntryOf(disk_out.runs[i].run_folder)].content.mtime)
                /\ ~StrLess(disk_out.runs[i].last_modified, disk_out.runs[k].last_modified)

\* C15 witness: three run folders that iterdir() yields oldest first are
\* returned, at three different times.
C15_Witness ==
    /\ ListedOk
    /\ Len(disk_out.runs) = 3
    /\ root.entries[1].content.mtime = <<9, 0>>
    /\ root.entries[2].content.mtime = <<9, 500000>>
    /\ root.entries[3].content.mtime = <<10, 0>>
    /\ disk_out.runs[1].run_folder = "runs/run_3"

\* C16: with a positive max_runs the scan keeps min(max_runs, number of
\* candidates) candidates, none of them older than a candidate it leaves
\* out, and loads and summarizes those only; with max_runs None, zero or
\* negative it keeps every candidate.
C16_TruncatedBeforeSummary ==
    Listed =>
        LET kept == Kept(root, disk_call.max_runs)
            n == Cardinality(WithMetadata)
            positive == ~disk_call.max_runs.is_none /\ disk_call.max_runs.n > 0
        IN  /\ positive =>
                  Len(kept) = IF disk_call.max_runs.n < n THEN disk_call.max_runs.n ELSE n
            /\ ~positive => Len(kept) = n
            /\ Cardinality(FoldersOf(kept)) = Len(kept)
            /\ \A i \in WithMetadata :
                  "runs/" \o root.entries[i].name \notin FoldersOf(kept) =>
                      \A k \in 1..Len(kept) :
                          MtimeLeq(root.entries[i].content.mtime,
                                   root.entries[EntryOf(kept[k].run_folder)].content.mtime)
            /\ disk_out.kind = "ok" =>
                  /\ Len(disk_out.runs) = Len(kept)
                  /\ \A k \in 1..Len(kept) : disk_out.runs[k].run_folder = kept[k].run_folder
                  /\ disk_out.total_count =
                         Cardinality({k \in 1..Len(kept) :
                                         EntryOf(kept[k].run_folder) \in Loadable})

\* C16 witness: three candidates and max_runs = 2: two entries are returned.
C16_Witness ==
    /\ ListedOk
    /\ Cardinality(WithMetadata) = 3
    /\ disk_call.max_runs = MaxRuns(2)
    /\ Len(disk_out.runs) = 2
    /\ disk_out.total_count = 2

\* C17: scanned_directories is the number of immediate subdirectories of
\* the scanned folder, those without loadable metadata included and plain
\* files not included.
C17_ScannedCountsDirectories ==
    ListedOk => disk_out.scanned_directories = Cardinality(Subdirs)

\* C18: for a folder that does not exist or is no directory the call
\* returns a non-empty error, no runs, total_count 0 and
\* scanned_directories 0.
C18_BadRootIsError ==
    (disk_call.op = "list" /\ (~root.exists \/ ~root.is_dir)) =>
        /\ disk_out.kind = "ok"
        /\ disk_out.error \notin {None, ""}
        /\ disk_out.runs = <<>>
        /\ disk_out.total_count = 0
        /\ disk_out.scanned_directories = 0

\* C18 witness: the folder is a plain file and the call returned.
C18_Witness ==
    /\ disk_call.op = "list"
    /\ root.exists
    /\ ~root.is_dir
    /\ disk_out.kind = "ok"

\* Whether the data of an output is complete on disk: the file exists, or
\* no position of the resolved array is missing.
CompleteOnDisk(data) ==
    IF data.kind = "path" THEN data.exists
    ELSE data.resolved /\ \A p \in 1..Len(data.mask) : ~data.mask[p]

\* C19: all_complete of a run is the AND of the complete flags of its
\* outputs, true for no outputs; in a listing entry total_outputs is the
\* number of outputs, completed_outputs the number of complete ones, so
\* completed_outputs <= total_outputs, with equality iff all_complete.
C19_AllCompleteIsAnd ==
    /\ (disk_call.op = "run_info" /\ disk_out.kind = "ok"
            /\ "outputs" \in DOMAIN disk_out) =>
          /\ disk_out.all_complete =
                \A n \in DOMAIN disk_out.outputs : disk_out.outputs[n].complete
          /\ \A n \in DOMAIN disk_out.outputs :
                disk_out.outputs[n].complete =
                    CompleteOnDisk(ContentAt(root, disk_call.run_folder).outputs.store[n])
    /\ ListedOk =>
          \A k \in 1..Len(disk_out.runs) :
              SummaryFields \subseteq DOMAIN disk_out.runs[k] =>
                  LET e == disk_out.runs[k]
                      o == root.entries[EntryOf(e.run_folder)].content.outputs
                  IN  /\ e.total_outputs = Len(o.names)
                      /\ e.completed_outputs =
                             Cardinality({i \in 1..Len(o.names) :
                                             CompleteOnDisk(o.store[o.names[i]])})
                      /\ e.completed_outputs <= e.total_outputs
                      /\ e.all_complete = (e.completed_outputs = e.total_outputs)

\* C19 witness: a run of two outputs, one complete and one not, was
\* inspected.
C19_Witness ==
    /\ disk_call.op = "run_info"
    /\ disk_out.kind = "ok"
    /\ "outputs" \in DOMAIN disk_out
    /\ DOMAIN disk_out.outputs = {"y1", "y2"}
    /\ disk_out.outputs["y1"].complete
    /\ ~disk_out.outputs["y2"].complete
    /\ ~disk_out.all_complete

\* The positions of an array that hold a value.
Filled(data) == {p \in 1..Len(data.mask) : ~data.mask[p]}

\* The array outputs of the inspected run with a resolved shape of at least
\* one position, each with its progress entry.
InspectedArrays ==
    IF disk_call.op = "run_info" /\ disk_out.kind = "ok" /\ "outputs" \in DOMAIN disk_out
    THEN LET store == ContentAt(root, disk_call.run_folder).outputs.store
         IN  {[data |-> store[n], info |-> disk_out.outputs[n]] :
                 n \in {o \in DOMAIN disk_out.outputs :
                           /\ store[o].kind = "array"
                           /\ store[o].resolved
                           /\ Len(store[o].mask) > 0}}
    ELSE {}

\* Bit k of a binary fraction, zero after its last bit.
BitAt(bits, k) == IF k <= Len(bits) THEN bits[k] ELSE 0

\* a - b for the bits k..n of two binary fractions, added to twice d per
\* bit: the difference in units of bit n, cut off at -1024 and 1024.
RECURSIVE BitsDifference(_, _, _, _, _)
BitsDifference(a, b, k, n, d) ==
    IF k > n THEN d
    ELSE LET next == 2 * d + BitAt(a, k) - BitAt(b, k)
         IN  IF next > 1024 THEN BitsDifference(a, b, k + 1, n, 1024)
             ELSE IF next < -1024 THEN BitsDifference(a, b, k + 1, n, -1024)
             ELSE BitsDifference(a, b, k + 1, n, next)

\* A float p below 1 lies within 2^-53 of the quotient filled / total, for
\* filled < total: p differs from the first 60 bits of the quotient by at
\* most 127 units of 2^-60, and those bits from the quotient by less than
\* one unit.
NearQuotient(p, filled, total) ==
    LET d == BitsDifference(p.frac, DivBits(filled, total, 60), 1, 60, 0)
    IN  /\ p.int = 0
        /\ Len(p.frac) <= 60
        /\ d <= 127
        /\ d >= -127

\* C20 as stated: for an array output with a resolved shape of
\* total_count > 0 positions, the reported progress is the float
\* filled_count / total_count and complete is true iff every position is
\* filled.
C20_ArrayFraction ==
    \A a \in InspectedArrays :
        /\ a.info.progress = FloatDiv(Cardinality(Filled(a.data)), Len(a.data.mask))
        /\ a.info.complete = (Cardinality(Filled(a.data)) = Len(a.data.mask))

\* C20 amended: for an array output with a resolved shape of
\* total_count > 0 positions, the reported progress is a float within
\* 2^-53 of filled_count / total_count, 0.0 when no position is filled
\* and 1.0 when every position is; complete is true iff every position is
\* filled.
C20_ArrayFractionRounded ==
    \A a \in InspectedArrays :
        LET filled == Cardinality(Filled(a.data))
            total == Len(a.data.mask)
            p == a.info.progress
        IN  /\ p.known
            /\ filled = 0 => p = Float(0, <<>>)
            /\ filled = total => p = Float(1, <<>>)
            /\ filled < total => NearQuotient(p, filled, total)
            /\ a.info.complete = (filled = total)

\* C20 witness: an array of five positions, two of them filled, was
\* inspected.
C20_Witness ==
    /\ disk_call.op = "run_info"
    /\ disk_out.kind = "ok"
    /\ "outputs" \in DOMAIN disk_out
    /\ \E n \in DOMAIN disk_out.outputs :
          LET data == ContentAt(root, disk_call.run_folder).outputs.store[n]
          IN  /\ data.kind = "array"
              /\ data.resolved
              /\ Len(data.mask) = 5
              /\ Cardinality(Filled(data)) = 2
              /\ ~disk_out.outputs[n].complete

-----------------------------------------------------------------------------
(* Properties of run_info *)

\* A run_info call was made on a folder whose metadata loads.
InspectedLoadable ==
    /\ disk_call.op = "run_info"
    /\ root.is_dir
    /\ \E i \in Loadable : disk_call.run_folder = "runs/" \o root.entries[i].name

\* C21: run_info does not raise; for a run folder whose metadata is
\* missing, unreadable or unparseable it returns a dict of a non-empty
\* error and nothing else, and for a loadable run folder it returns the
\* metadata, one progress entry per output and all_complete.
C21_RunInfoErrorOrResult ==
    disk_call.op = "run_info" =>
        /\ disk_out.kind = "ok"
        /\ ~InspectedLoadable =>
              /\ DOMAIN disk_out = {"op", "kind", "error"}
              /\ disk_out.error \notin {None, ""}
        /\ InspectedLoadable =>
              /\ {"run_info", "outputs", "all_complete"} \subseteq DOMAIN disk_out
              /\ "error" \notin DOMAIN disk_out
              /\ LET o == ContentAt(root, disk_call.run_folder).outputs
                 IN  DOMAIN disk_out.outputs = {o.names[i] : i \in 1..Len(o.names)}

-----------------------------------------------------------------------------
(* Frame properties of the job registry *)

AllJobFields == {"job_id", "runner", "started_at", "run_folder", "status", "pipeline_name"}

\* C22: the stored status of a job changes only in a cancel_job call on
\* that job that found its task not done and called cancel() on it; no
\* other step changes the status of any job: not a start_async_job, a
\* get_job_status, a list_jobs, a list_historical_runs or a run_info call,
\* not a cancelled request and not a task that ends.  So a stored status
\* other than "running" is "cancelled" and the task of the job was asked to
\* cancel.
C22_OnlyCancelChangesStatus ==
    /\ [](\A j \in Registered :
            Stored(j).status # "running" =>
                /\ Stored(j).status = "cancelled"
                /\ TaskOf(j).must_cancel)
    /\ [][ job_registry' # job_registry =>
             \A j \in Registered \cap Keys(job_registry') :
                 Get(job_registry', j).status # Stored(j).status =>
                     /\ TaskOf(j).state = "pending"
                     /\ task'[Stored(j).runner] = [TaskOf(j) EXCEPT !.must_cancel = TRUE]
                     /\ Get(job_registry', j).status = "cancelled" ]_vars

\* C22 witness: one job was cancelled, and another, whose task ended with a
\* result and was queried, is still stored as "running", after a
\* list_historical_runs call that returned the run of the scanned folder.
C22_Witness ==
    /\ \E j \in Registered : Stored(j).status = "cancelled" /\ TaskOf(j).must_cancel
    /\ \E j \in Registered :
          /\ Stored(j).status = "running"
          /\ TaskOf(j).state = "result"
          /\ CheckJobStatusOut(j).kind = "ok"
    /\ disk_call.op = "list"
    /\ disk_out.kind = "ok"
    /\ disk_out.total_count = 1

\* C23: no insert is lost and no partial record is visible: the registry
\* holds one record for every start_async_job call that stored one, every
\* call that is about to return has its own record in the registry under
\* its job_id, and every record of the registry has all its fields set: a
\* scheduled task, a start time, a run folder, a status and a display name.
C23_NoLostInsert ==
    /\ Len(job_registry) = StoredCalls
    /\ \A i, k \in 1..Len(job_registry) :
          i # k => job_registry[i].job_id # job_registry[k].job_id
    /\ \A f \in Frames("launch_info2") :
          \E i \in 1..Len(job_registry) :
              /\ job_registry[i].job_id = f.job_id
              /\ job_registry[i].run_folder = f.run_folder
    /\ \A i \in 1..Len(job_registry) :
          /\ DOMAIN job_registry[i] = AllJobFields
          /\ job_registry[i].runner \in 1..Len(task)
          /\ job_registry[i].started_at \in 0..clock
          /\ job_registry[i].run_folder \notin {None, ""}
          /\ job_registry[i].status \in {"running", "completed", "cancelled"}
          /\ job_registry[i].pipeline_name \notin {None, ""}

\* C23 witness: two launches are in flight at once, both suspended after
\* storing their record, and the one that drew its job_id second stored
\* first.
C23_Witness ==
    /\ \E f, g \in Frames("launch_info2") :
          /\ f.job_id = Uuid4(1)
          /\ g.job_id = Uuid4(2)
          /\ job_registry[1].job_id = g.job_id
          /\ job_registry[2].job_id = f.job_id
    /\ n_returned = 0

\* C24: a step never removes a job from the registry and never changes the
\* runner, started_at, run_folder or pipeline_name of a job; a step changes
\* the record of at most one job, the one whose task it asked to cancel.
C24_RecordFieldsImmutable ==
    [][ job_registry' # job_registry =>
          /\ \A j \in Registered :
                /\ j \in Keys(job_registry')
                /\ Get(job_registry', j).runner = Stored(j).runner
                /\ Get(job_registry', j).started_at = Stored(j).started_at
                /\ Get(job_registry', j).run_folder = Stored(j).run_folder
                /\ Get(job_registry', j).pipeline_name = Stored(j).pipeline_name
          /\ \A j \in Registered :
                Get(job_registry', j) # Stored(j) =>
                    /\ task'[Stored(j).runner].must_cancel
                    /\ \A k \in Registered \ {j} : Get(job_registry', k) = Stored(k) ]_vars

\* C24 witness: of two jobs with different run folders, started at
\* different times, the later one was cancelled and the call returned.
C24_Witness ==
    /\ Len(job_registry) = 2
    /\ job_registry[1].status = "running"
    /\ job_registry[2].status = "cancelled"
    /\ job_registry[1].run_folder # job_registry[2].run_folder
    /\ job_registry[1].started_at # job_registry[2].started_at
    /\ CancelReturned(job_registry[2].job_id)

-----------------------------------------------------------------------------
(* Properties of the listing across iteration orders, and of empty arrays *)

\* The orders in which iterdir() can yield n entries.
Perms(n) ==
    {p \in [1..n -> 1..n] : \A i, k \in 1..n : i # k => p[i] # p[k]}

\* The same folder, its entries yielded in order p.
Permuted(r, p) ==
    [r EXCEPT !.entries = [i \in 1..Len(r.entries) |-> r.entries[p[i]]]]

RunFolders(runs) == [k \in 1..Len(runs) |-> runs[k].run_folder]

\* C25: two scans of the same folder of loadable run folders with the same
\* max_runs that both return, return the same run folders in the same
\* order, in whatever order iterdir() yields the entries.
C25_OrderIsDeterministic ==
    (ListedOk /\ WithMetadata = Loadable) =>
        \A p \in Perms(Len(root.entries)) :
            LET other == ListHistoricalRunsOut(Permuted(root, p), disk_call.max_runs)
            IN  other.kind = "ok" => RunFolders(other.runs) = RunFolders(disk_out.runs)

\* C26: every returned entry that has a pipefunc_version reports the
\* version of the metadata file of its own run folder, and "unknown" only
\* when that file has no version.
C26_VersionIsOwn ==
    ListedOk =>
        \A k \in 1..Len(disk_out.runs) :
            "pipefunc_version" \in DOMAIN disk_out.runs[k] =>
                LET v == root.entries[EntryOf(disk_out.runs[k].run_folder)].content.version
                IN  disk_out.runs[k].pipefunc_version = IF v = None THEN "unknown" ELSE v

\* C27: for a loadable run folder, whatever the sizes of its resolved array
\* outputs, run_info returns a progress entry for each output, and
\* list_historical_runs on a folder of that run alone returns its summary.
C27_EmptyArrayInspected ==
    /\ InspectedLoadable =>
          /\ disk_out.kind = "ok"
          /\ LET o == ContentAt(root, disk_call.run_folder).outputs
             IN  \A i \in 1..Len(o.names) : o.names[i] \in DOMAIN disk_out.outputs
    /\ (Listed /\ Len(root.entries) = 1 /\ Loadable = {1}) =>
          /\ disk_out.kind = "ok"
          /\ Len(disk_out.runs) = 1
          /\ SummaryFields \subseteq DOMAIN disk_out.runs[1]

====
